---------------------------- MODULE Spec2Model ----------------------------
(***************************************************************************)
(* Model of api_server.py: the CrewAI tool wrapper.                        *)
(*                                                                         *)
(*   - Python/JSON values are tagged records (PyStr, PyInt, ...), so that  *)
(*     str(), repr(), len(), slicing and truthiness act on them as the     *)
(*     interpreter does, including the TypeErrors they raise.              *)
(*   - convert_params_to_user_query and parse_crewai_result are operators. *)
(*   - The execute endpoint is a state machine over request slots; the     *)
(*     asyncio event loop is the variable `loop`: a handler holds it from  *)
(*     the moment it is scheduled until it awaits or returns.              *)
(***************************************************************************)
EXTENDS Integers, Sequences, FiniteSets, TLC

(***************************************************************************)
(* Python values                                                           *)
(***************************************************************************)
PyNone == [t |-> "none"]
PyStr(s) == [t |-> "str", v |-> s]
PyInt(n) == [t |-> "int", v |-> n]
PyBool(b) == [t |-> "bool", v |-> b]
\* a list is a sequence of values; a dict a sequence of <<key, value>> pairs
\* in insertion order (keys are plain strings, pairwise different)
PyList(l) == [t |-> "list", v |-> l]
PyDict(d) == [t |-> "dict", v |-> d]
\* an object with a `response` attribute (GoogleSuiteFlowState), and an
\* object with a __dict__ but no `response`; r is what str(obj) returns
PyState(resp, r) == [t |-> "state", response |-> resp, repr |-> r]
PyObject(attrs, r) == [t |-> "object", attrs |-> attrs, repr |-> r]

Ok(v) == [ok |-> TRUE, v |-> v]
Raise(e, m) == [ok |-> FALSE, exc |-> e, msg |-> m]

Min(a, b) == IF a < b THEN a ELSE b

RECURSIVE JoinStr(_, _)
JoinStr(strs, sep) ==
    IF strs = <<>> THEN ""
    ELSE IF Len(strs) = 1 THEN strs[1]
    ELSE strs[1] \o sep \o JoinStr(Tail(strs), sep)

StartsWith(s, p) == Len(s) >= Len(p) /\ SubSeq(s, 1, Len(p)) = p
Contains(s, p) == \E i \in 1..(Len(s) - Len(p) + 1) : SubSeq(s, i, i + Len(p) - 1) = p

TypeName(v) ==
    CASE v.t = "none" -> "NoneType"
      [] v.t = "state" -> "GoogleSuiteFlowState"
      [] v.t = "object" -> "object"
      [] OTHER -> v.t

\* bool(v)
Truthy(v) ==
    CASE v.t = "none" -> FALSE
      [] v.t = "str" -> v.v # ""
      [] v.t = "int" -> v.v # 0
      [] v.t = "bool" -> v.v
      [] v.t = "list" -> v.v # <<>>
      [] v.t = "dict" -> v.v # <<>>
      [] OTHER -> TRUE

\* repr(v) and str(v): they differ on strings only (the strings of the model
\* hold no quote and no backslash, so repr adds the quotes and nothing else)
RECURSIVE Repr(_)
Repr(v) ==
    CASE v.t = "none" -> "None"
      [] v.t = "str" -> "'" \o v.v \o "'"
      [] v.t = "int" -> ToString(v.v)
      [] v.t = "bool" -> IF v.v THEN "True" ELSE "False"
      [] v.t = "list" ->
            "[" \o JoinStr([i \in 1..Len(v.v) |-> Repr(v.v[i])], ", ") \o "]"
      [] v.t = "dict" ->
            "{" \o JoinStr([i \in 1..Len(v.v) |->
                      "'" \o v.v[i][1] \o "': " \o Repr(v.v[i][2])], ", ") \o "}"
      [] OTHER -> v.repr

Str(v) == IF v.t = "str" THEN v.v ELSE Repr(v)

\* json.dumps(v, default=str) with the default separators
RECURSIVE JsonDumps(_)
JsonDumps(v) ==
    CASE v.t = "none" -> "null"
      [] v.t = "str" -> "\"" \o v.v \o "\""
      [] v.t = "int" -> ToString(v.v)
      [] v.t = "bool" -> IF v.v THEN "true" ELSE "false"
      [] v.t = "list" ->
            "[" \o JoinStr([i \in 1..Len(v.v) |-> JsonDumps(v.v[i])], ", ") \o "]"
      [] v.t = "dict" ->
            "{" \o JoinStr([i \in 1..Len(v.v) |->
                      "\"" \o v.v[i][1] \o "\": " \o JsonDumps(v.v[i][2])], ", ") \o "}"
      [] OTHER -> "\"" \o v.repr \o "\""

\* d.get(k, default) on a dict value
HasKey(d, k) == \E i \in 1..Len(d.v) : d.v[i][1] = k
Get(d, k, default) ==
    IF HasKey(d, k)
    THEN d.v[CHOOSE i \in 1..Len(d.v) : d.v[i][1] = k][2]
    ELSE default

\* len(v)
PyLen(v) ==
    IF v.t \in {"str", "list", "dict"}
    THEN Ok(Len(v.v))
    ELSE Raise("TypeError", "object of type '" \o TypeName(v) \o "' has no len()")

\* v[:n]
PySlice(v, n) ==
    CASE v.t = "str" -> Ok(PyStr(SubSeq(v.v, 1, Min(n, Len(v.v)))))
      [] v.t = "list" -> Ok(PyList(SubSeq(v.v, 1, Min(n, Len(v.v)))))
      \* a dict is indexed by the slice object: TypeError (unhashable slice)
      \* before Python 3.12, KeyError from 3.12 on; neither is a ValueError
      [] v.t = "dict" -> Raise("TypeError", "unhashable type: 'slice'")
      [] OTHER -> Raise("TypeError", "'" \o TypeName(v) \o "' object is not subscriptable")

\* ', '.join(l) on a list value
PyJoin(sep, l) ==
    IF \A i \in 1..Len(l.v) : l.v[i].t = "str"
    THEN Ok(JoinStr([i \in 1..Len(l.v) |-> l.v[i].v], sep))
    ELSE LET bad == CHOOSE i \in 1..Len(l.v) :
                        /\ l.v[i].t # "str"
                        /\ \A j \in 1..(i - 1) : l.v[j].t = "str"
         IN Raise("TypeError", "sequence item " \o ToString(bad - 1)
                    \o ": expected str instance, " \o TypeName(l.v[bad]) \o " found")

(***************************************************************************)
(* Tool registry                                                           *)
(***************************************************************************)
\* the registry's keys in insertion order: list(TOOL_TO_CREW_MAPPING.keys())
TOOL_IDS ==
    << "google_calendar_create", "google_calendar_list", "google_calendar_get",
       "google_calendar_update", "google_calendar_delete",
       "google_calendar_quick_add", "google_calendar_freebusy",
       "gmail_send", "gmail_read", "gmail_search", "gmail_draft",
       "gmail_labels", "gmail_reply",
       "google_drive_upload", "google_drive_download", "google_drive_list",
       "google_drive_share", "google_drive_create_folder", "google_drive_move",
       "google_drive_delete",
       "google_sheets_read", "google_sheets_write", "google_sheets_update",
       "google_sheets_append",
       "google_docs_read", "google_docs_write", "google_docs_create" >>

ToolIdSet == {TOOL_IDS[i] : i \in 1..Len(TOOL_IDS)}

TOOL_TO_CREW_MAPPING ==
    [id \in ToolIdSet |->
        CASE StartsWith(id, "google_calendar_") -> "EVENT_MANAGEMENT_FLOW"
          [] StartsWith(id, "gmail_") -> "EMAIL_MANAGEMENT_FLOW"
          [] StartsWith(id, "google_drive_") -> "DRIVE_MANAGEMENT_FLOW"
          [] StartsWith(id, "google_sheets_") -> "SHEETS_MANAGEMENT_FLOW"
          [] StartsWith(id, "google_docs_") -> "DOCS_MANAGEMENT_FLOW"]


(***************************************************************************)
(* Query synthesizer: convert_params_to_user_query                         *)
(***************************************************************************)
\* the number of characters of a body that a synthesized query keeps
BodyLimit == 100

\* gmail_send: the clause for `body`
\*   if body: query += f" and body: {body[:100]}..." if len(body) > 100
\*                     else f" and body: {body}"
SendBodyClause(body) ==
    IF ~Truthy(body) THEN Ok("")
    ELSE LET n == PyLen(body) IN
         IF ~n.ok THEN n
         ELSE IF n.v > BodyLimit
              THEN LET cut == PySlice(body, BodyLimit) IN
                   IF ~cut.ok THEN cut
                   ELSE Ok(" and body: " \o Str(cut.v) \o "...")
              ELSE Ok(" and body: " \o Str(body))

\* gmail_reply: the clause for `reply_body`: f" and reply: {reply_body[:100]}..."
ReplyBodyClause(reply_body) ==
    LET cut == PySlice(reply_body, BodyLimit) IN
    IF ~cut.ok THEN cut
    ELSE Ok(" and reply: " \o Str(cut.v) \o "...")

\* google_calendar_create: start.get('dateTime', '') if isinstance(start, dict)
\* else str(start)
EventTime(when) ==
    IF when.t = "dict" THEN Get(when, "dateTime", PyStr("")) ELSE PyStr(Str(when))

\* google_calendar_create: the clause for `attendees`
AttendeesClause(attendees) ==
    IF ~Truthy(attendees) THEN Ok("")
    ELSE IF attendees.t = "list"
         THEN LET j == PyJoin(", ", attendees) IN
              IF ~j.ok THEN j ELSE Ok(" with attendees: " \o j.v)
         ELSE Ok(" with attendees: " \o Str(attendees))

convert_params_to_user_query(tool_id, params) ==
    LET P(k, default) == Get(params, k, default)
        S(k, default) == Str(Get(params, k, PyStr(default)))
    IN
    CASE tool_id = "google_calendar_create" ->
           LET start_time == EventTime(P("start", PyDict(<<>>)))
               end_time == EventTime(P("end", PyDict(<<>>)))
               description == P("description", PyStr(""))
               att == AttendeesClause(P("attendees", PyList(<<>>)))
           IN IF ~att.ok THEN att
              ELSE Ok("Create calendar event: " \o S("summary", "event")
                      \o (IF Truthy(start_time) THEN " from " \o Str(start_time) ELSE "")
                      \o (IF Truthy(end_time) THEN " to " \o Str(end_time) ELSE "")
                      \o (IF Truthy(description)
                          THEN " with description: " \o Str(description) ELSE "")
                      \o att.v)
      [] tool_id = "google_calendar_list" ->
           Ok("List calendar events from " \o S("timeMin", "now") \o " to "
              \o S("timeMax", "future") \o ", maximum "
              \o Str(P("maxResults", PyInt(10))) \o " results")
      [] tool_id = "google_calendar_get" ->
           Ok("Get calendar event with ID: " \o S("eventId", ""))
      [] tool_id = "google_calendar_update" ->
           Ok("Update calendar event " \o S("eventId", "") \o " with title: "
              \o S("summary", ""))
      [] tool_id = "google_calendar_delete" ->
           Ok("Delete calendar event with ID: " \o S("eventId", ""))
      [] tool_id = "gmail_send" ->
           LET body == SendBodyClause(P("body", PyStr("")))
               cc == P("cc", PyNone)
               bcc == P("bcc", PyNone)
           IN IF ~body.ok THEN body
              ELSE Ok("Send email to " \o S("to", "") \o " with subject '"
                      \o S("subject", "") \o "'"
                      \o body.v
                      \o (IF Truthy(cc) THEN ", CC: " \o Str(cc) ELSE "")
                      \o (IF Truthy(bcc) THEN ", BCC: " \o Str(bcc) ELSE ""))
      [] tool_id = "gmail_read" ->
           Ok("Read "
              \o (IF Truthy(P("unread_only", PyBool(TRUE))) THEN "unread" ELSE "recent")
              \o " emails from the last " \o Str(P("hours", PyInt(24)))
              \o " hours, maximum " \o Str(P("maxResults", PyInt(10))) \o " results")
      [] tool_id = "gmail_search" ->
           Ok("Search emails with query: " \o S("query", ""))
      [] tool_id = "gmail_reply" ->
           LET reply == ReplyBodyClause(P("reply_body", PyStr(""))) IN
           IF ~reply.ok THEN reply
           ELSE Ok("Reply to email from " \o S("original_from_email", "")
                   \o " with subject '" \o S("original_subject", "") \o "'"
                   \o reply.v)
      [] tool_id = "google_drive_upload" ->
           LET first == P("fileName", PyNone)
               file_name == IF Truthy(first) THEN first ELSE P("name", PyStr("file"))
               folder_id == P("folderId", PyStr(""))
           IN IF Truthy(folder_id)
              THEN Ok("Upload file " \o Str(file_name) \o " to Google Drive folder "
                      \o Str(folder_id))
              ELSE Ok("Upload file " \o Str(file_name) \o " to Google Drive")
      [] tool_id = "google_drive_list" ->
           LET folder_id == P("folderId", PyStr(""))
               query == P("query", PyStr(""))
           IN IF Truthy(query)
              THEN Ok("List files in Google Drive matching: " \o Str(query))
              ELSE IF Truthy(folder_id)
                   THEN Ok("List files in Google Drive folder " \o Str(folder_id))
                   ELSE Ok("List files in Google Drive")
      [] tool_id = "google_drive_download" ->
           Ok("Download file from Google Drive with ID: " \o S("fileId", ""))
      [] tool_id = "google_drive_share" ->
           Ok("Share Google Drive file " \o S("fileId", "") \o " with "
              \o S("email", ""))
      [] tool_id = "google_drive_create_folder" ->
           LET parent_id == P("parentId", PyStr("")) IN
           IF Truthy(parent_id)
           THEN Ok("Create folder '" \o S("name", "New Folder")
                   \o "' in Google Drive folder " \o Str(parent_id))
           ELSE Ok("Create folder '" \o S("name", "New Folder") \o "' in Google Drive")
      [] tool_id = "google_sheets_read" ->
           Ok("Read data from Google Sheets " \o S("spreadsheetId", "") \o " range "
              \o S("range", ""))
      [] tool_id = "google_sheets_write" ->
           Ok("Write data to Google Sheets " \o S("spreadsheetId", "") \o " range "
              \o S("range", ""))
      [] tool_id = "google_docs_read" ->
           Ok("Read Google Docs document " \o S("documentId", ""))
      [] tool_id = "google_docs_create" ->
           Ok("Create Google Docs document with title: " \o S("title", "New Document"))
      [] OTHER ->
           Ok("Execute " \o tool_id \o " with parameters: " \o JsonDumps(params))

(***************************************************************************)
(* Result normalizer: parse_crewai_result                                  *)
(***************************************************************************)
Envelope(data, message) ==
    PyDict(<< <<"data", data>>, <<"status", PyStr("success")>>,
              <<"message", PyStr(message)>> >>)

\* faulty variant: no branch for a mapping, which is wrapped as any other value
parse_wrapping_mappings(result) ==
    CASE result.t = "str" -> Envelope(result, result.v)
      [] result.t = "state" ->
           LET response_str == IF Truthy(result.response)
                               THEN Str(result.response) ELSE Str(result)
           IN Envelope(PyStr(response_str), response_str)
      [] result.t = "object" -> Envelope(result.attrs, Str(result))
      [] OTHER -> Envelope(PyStr(Str(result)), Str(result))

parse_crewai_result(result) ==
    CASE result.t = "str" -> Envelope(result, result.v)
      [] result.t = "state" ->
           LET response_str == IF Truthy(result.response)
                               THEN Str(result.response) ELSE Str(result)
           IN Envelope(PyStr(response_str), response_str)
      [] result.t = "dict" -> result
      [] result.t = "object" -> Envelope(result.attrs, Str(result))
      [] OTHER -> Envelope(PyStr(Str(result)), Str(result))

(***************************************************************************)
(* The execute endpoint and the flow cache                                 *)
(***************************************************************************)
\* request slots; each slot carries one request, slots arrive in order
NReq == 2
Req == 1..NReq

\* the inputs of the model: requests (tools with a formatting rule of their
\* own and with the JSON fallback, one outside the registry; params that
\* synthesize and params that make the synthesizer raise; the caller's query
\* absent, empty and given), values of OPENAI_API_KEY, what the
\* GoogleSuiteFlow constructor does and what flow.kickoff does
Request(tool_id, params, userQuery) ==
    [toolId |-> tool_id, params |-> params, userQuery |-> userQuery]
NullReply == PyDict(<< <<"reply_body", PyNone>>, <<"title", PyStr("Notes")>> >>)
RequestInputs ==
    { Request("gmail_reply", PyDict(<<>>), PyNone),
      Request("gmail_reply", NullReply, PyNone),
      Request("gmail_reply", NullReply, PyStr("Reply to Bob")),
      Request("google_docs_write", NullReply, PyStr("")),
      Request("not_a_real_tool", PyDict(<<>>), PyNone),
      Request("not_a_real_tool", NullReply, PyStr("Reply to Bob")) }
EnvValues == {PyNone, PyStr(""), PyStr("sk-test")}
CtorOutcomes == {Ok(PyNone), Raise("RuntimeError", "router file missing")}
KickoffOutcomes ==
    { Ok(PyStr("done")),
      Ok(PyState(PyStr("sent"), "state")),
      Ok(PyState(PyStr(""), "state")),
      Ok(PyDict(<<>>)),
      Ok(PyDict(<< <<"message", PyInt(7)>> >>)),
      Ok(PyObject(PyDict(<< <<"raw", PyStr("x")>> >>), "CrewOutput")),
      Ok(PyInt(42)),
      Raise("ValueError", "bad input"),
      Raise("RuntimeError", "quota exceeded") }

CACHE_KEY == "google_suite"
\* how many characters of the message the handler logs
LogLimit == 200

Pending == [t |-> "pending"]
NoCall == [t |-> "nocall"]

VARIABLES
    _flow_cache,   \* _flow_cache: CACHE_KEY -> the handle stored (an object id)
    env,          \* os.environ["OPENAI_API_KEY"], PyNone when unset
    loop,         \* the requests whose handler runs on the event loop: one or none
    pc,           \* pc[r]: idle, accepted, constructing, running, returned, done
    req,          \* req[r]: the ToolExecuteRequest
    local,        \* local[r]: the handler's user_query, crew_name and api_key
    call,         \* call[r]: the flow and the inputs handed to the executor
    outcome,      \* outcome[r]: what flow.kickoff returned or raised
    resp,         \* resp[r]: the ToolExecuteResponse
    constructed,  \* history: GoogleSuiteFlow objects constructed so far
    stores,       \* history: assignments to _flow_cache[CACHE_KEY] so far
    attempts,     \* history: calls of the GoogleSuiteFlow constructor so far
    envReads,     \* history: reads of OPENAI_API_KEY so far
    origin,       \* history: origin[r], where the request's exception was raised
    synTool, synParams, synOut,  \* the synthesizer applied on its own
    normIn, normOnce, normTwice  \* the normalizer applied on its own, twice

serverVars == <<_flow_cache, env, loop, pc, req, local, call, outcome, resp,
                constructed, stores, attempts, envReads, origin>>
synVars == <<synTool, synParams, synOut>>
normVars == <<normIn, normOnce, normTwice>>
vars == <<_flow_cache, env, loop, pc, req, local, call, outcome, resp,
          constructed, stores, attempts, envReads, origin,
          synTool, synParams, synOut, normIn, normOnce, normTwice>>

EmptyCache == [k \in {} |-> 0]

ServerInit ==
    /\ _flow_cache = EmptyCache
    /\ env \in EnvValues
    /\ loop = {}
    /\ pc = [r \in Req |-> "idle"]
    /\ req = [r \in Req |-> Pending]
    /\ local = [r \in Req |-> Pending]
    /\ call = [r \in Req |-> NoCall]
    /\ outcome = [r \in Req |-> Pending]
    /\ resp = [r \in Req |-> Pending]
    /\ constructed = 0
    /\ stores = 0
    /\ attempts = 0
    /\ envReads = 0
    /\ origin = [r \in Req |-> "none"]

SynIdle ==
    /\ synTool = ""
    /\ synParams = PyDict(<<>>)
    /\ synOut = Pending

NormIdle ==
    /\ normIn = PyNone
    /\ normOnce = Pending
    /\ normTwice = Pending

Init == ServerInit /\ SynIdle /\ NormIdle

\* ---- responses -----------------------------------------------------------
Response(success, output, error, metadata) ==
    [success |-> success, output |-> output, error |-> error, metadata |-> metadata]

AvailableTools == PyList([i \in 1..Len(TOOL_IDS) |-> PyStr(TOOL_IDS[i])])

\* faulty variant: the error does not list the registry
UnknownToolResponseNoList(tool_id) ==
    Response(FALSE, PyNone, PyStr("Unknown tool ID: " \o tool_id), PyNone)

UnknownToolResponse(tool_id) ==
    Response(FALSE, PyNone,
             PyStr("Unknown tool ID: " \o tool_id \o ". Available tools: "
                   \o Str(AvailableTools)),
             PyDict(<< <<"available_tools", AvailableTools>> >>))

ConfigErrorResponse(e) ==
    Response(FALSE, PyNone, PyStr("Configuration error: " \o e.msg), PyNone)

\* traceback.format_exc() ends with the exception's type and message
GenericErrorResponse(tool_id, e) ==
    Response(FALSE, PyNone,
             PyStr("Error executing tool " \o tool_id \o ": " \o e.msg),
             PyDict(<< <<"traceback",
                         PyStr("Traceback (most recent call last): "
                               \o e.exc \o ": " \o e.msg)>> >>))

\* faulty variant: the except clauses forget the message
ExceptionResponseBare(tool_id, e) == Response(FALSE, PyNone, PyNone, PyNone)

\* the handler's two except clauses: ValueError first, then Exception
ExceptionResponse(tool_id, e) ==
    IF e.exc = "ValueError"
    THEN ConfigErrorResponse(e)
    ELSE GenericErrorResponse(tool_id, e)

\* the two clock readings of the metadata are left out
SuccessResponse(tool_id, crew_name, parsed_result) ==
    Response(TRUE, parsed_result, PyNone,
             PyDict(<< <<"tool_id", PyStr(tool_id)>>,
                       <<"crew_name", PyStr(crew_name)>> >>))

\* ---- pieces of the handler -----------------------------------------------
KnownTool(tool_id) == tool_id \in DOMAIN TOOL_TO_CREW_MAPPING

\* faulty variant: `user_query is None` in place of `not user_query`
UserQueryIfNone(request) ==
    IF request.userQuery # PyNone
    THEN Ok(request.userQuery.v)
    ELSE convert_params_to_user_query(request.toolId, request.params)

\* user_query = request.userQuery; if not user_query: user_query = convert(...)
UserQuery(request) ==
    IF Truthy(request.userQuery)
    THEN Ok(request.userQuery.v)
    ELSE convert_params_to_user_query(request.toolId, request.params)

\* TOOL_TO_CREW_MAPPING.get(tool_id, 'GOOGLE_SUITE_FLOW')
CrewName(tool_id) ==
    IF tool_id \in DOMAIN TOOL_TO_CREW_MAPPING
    THEN TOOL_TO_CREW_MAPPING[tool_id]
    ELSE "GOOGLE_SUITE_FLOW"

KickoffInputs(user_query, crew_name) ==
    [user_query |-> user_query, crew_name |-> crew_name, flow_name |-> crew_name]

\* faulty variant: the cache is never consulted
CacheMissAlways(cache) == TRUE

\* get_google_suite_flow: cache_key not in _flow_cache
CacheMiss(cache) == CACHE_KEY \notin DOMAIN cache

\* faulty variant: `api_key is None` in place of `not api_key`
ApiKeyIsNone(api_key) == api_key = PyNone

\* get_google_suite_flow: not api_key
ApiKeyMissing(api_key) == ~Truthy(api_key)

\* faulty variant: the handler runs in a thread pool (a plain `def` endpoint)
LoopFreeAlways == TRUE

\* an async handler is scheduled only when no other handler holds the loop
LoopFree == loop = {}

\* faulty variant: a failed request is put back to be handled again
RespondOrRetry(r, response, where) ==
    /\ resp' = [resp EXCEPT ![r] = response]
    /\ origin' = [origin EXCEPT ![r] = where]
    /\ pc' = [pc EXCEPT ![r] = IF response.success THEN "done" ELSE "accepted"]

\* the handler ends with a response
Respond(r, response, where) ==
    /\ resp' = [resp EXCEPT ![r] = response]
    /\ origin' = [origin EXCEPT ![r] = where]
    /\ pc' = [pc EXCEPT ![r] = "done"]

\* loop.run_in_executor(executor, lambda: flow.kickoff(inputs=...)) and await
Submit(r, flow, lcl) ==
    /\ call' = [call EXCEPT ![r] =
                   [flow |-> flow,
                    inputs |-> KickoffInputs(lcl.user_query, lcl.crew_name)]]
    /\ pc' = [pc EXCEPT ![r] = "running"]

\* ---- actions -------------------------------------------------------------
\* a client posts a request to /api/tools/google-suite/execute
Arrive(r) ==
    /\ pc[r] = "idle"
    /\ IF r = 1 THEN TRUE ELSE pc[r - 1] # "idle"
    /\ \E request \in RequestInputs : req' = [req EXCEPT ![r] = request]
    /\ pc' = [pc EXCEPT ![r] = "accepted"]
    /\ UNCHANGED <<_flow_cache, env, loop, local, call, outcome, resp, constructed,
                   stores, attempts, envReads, origin>>
    /\ UNCHANGED synVars
    /\ UNCHANGED normVars

\* execute_google_suite_tool from its first line to the first point where it
\* gives up the event loop or stays on it for the flow's construction:
\* validation, query synthesis, and get_google_suite_flow up to the constructor
Start(r) ==
    /\ pc[r] = "accepted"
    /\ LoopFree
    /\ LET tool_id == req[r].toolId
           uq == UserQuery(req[r])
           lcl == [user_query |-> uq.v, crew_name |-> CrewName(tool_id),
                   api_key |-> PyNone]
       IN
       IF ~KnownTool(tool_id)
       THEN /\ Respond(r, UnknownToolResponse(tool_id), "none")
            /\ UNCHANGED <<_flow_cache, loop, local, call, envReads>>
       ELSE IF ~uq.ok
       THEN /\ Respond(r, ExceptionResponse(tool_id, uq), "synthesis")
            /\ UNCHANGED <<_flow_cache, loop, local, call, envReads>>
       ELSE IF ~CacheMiss(_flow_cache)
       THEN /\ Submit(r, _flow_cache[CACHE_KEY], lcl)
            /\ local' = [local EXCEPT ![r] = lcl]
            /\ UNCHANGED <<_flow_cache, loop, resp, origin, envReads>>
       ELSE /\ envReads' = envReads + 1
            /\ IF ApiKeyMissing(env)
               THEN /\ Respond(r, ExceptionResponse(tool_id,
                           Raise("ValueError",
                                 "OPENAI_API_KEY not set in environment variables")),
                           "credential")
                    /\ UNCHANGED <<_flow_cache, loop, local, call>>
               ELSE /\ local' = [local EXCEPT ![r] = [lcl EXCEPT !.api_key = env]]
                    /\ loop' = {r}
                    /\ pc' = [pc EXCEPT ![r] = "constructing"]
                    /\ UNCHANGED <<_flow_cache, call, resp, origin>>
    /\ UNCHANGED <<env, req, outcome, constructed, stores, attempts>>
    /\ UNCHANGED synVars
    /\ UNCHANGED normVars

\* get_google_suite_flow from the constructor on, run on the event loop:
\* _flow_cache[cache_key] = GoogleSuiteFlow(...), return _flow_cache[cache_key],
\* then the handler's run_in_executor and await
Construct(r) ==
    /\ pc[r] = "constructing"
    /\ attempts' = attempts + 1
    /\ \E built \in CtorOutcomes :
          IF built.ok
          THEN LET cache == (CACHE_KEY :> (constructed + 1)) IN
               /\ constructed' = constructed + 1
               /\ _flow_cache' = cache
               /\ stores' = stores + 1
               /\ Submit(r, cache[CACHE_KEY], local[r])
               /\ UNCHANGED <<resp, origin>>
          ELSE /\ Respond(r, ExceptionResponse(req[r].toolId,
                      Raise("ValueError", "Flow initialization failed: " \o built.msg)),
                      "construction")
               /\ UNCHANGED <<_flow_cache, constructed, stores, call>>
    /\ loop' = {}
    /\ UNCHANGED <<env, req, local, outcome, envReads>>
    /\ UNCHANGED synVars
    /\ UNCHANGED normVars

\* the worker thread runs flow.kickoff(inputs) to its end
Kickoff(r) ==
    /\ pc[r] = "running"
    /\ \E result \in KickoffOutcomes : outcome' = [outcome EXCEPT ![r] = result]
    /\ pc' = [pc EXCEPT ![r] = "returned"]
    /\ UNCHANGED <<_flow_cache, env, loop, req, local, call, resp, constructed,
                   stores, attempts, envReads, origin>>
    /\ UNCHANGED synVars
    /\ UNCHANGED normVars

\* the handler resumes after the await: parse_crewai_result, the log line
\* parsed_result.get('message', 'N/A')[:200], the response; or the except
\* clause for what kickoff raised
Resume(r) ==
    /\ pc[r] = "returned"
    /\ LoopFree
    /\ LET tool_id == req[r].toolId
           parsed_result == parse_crewai_result(outcome[r].v)
           logged == PySlice(Get(parsed_result, "message", PyStr("N/A")), LogLimit)
       IN
       IF ~outcome[r].ok
       THEN Respond(r, ExceptionResponse(tool_id, outcome[r]), "invocation")
       ELSE IF ~logged.ok
       THEN Respond(r, ExceptionResponse(tool_id, logged), "logging")
       ELSE Respond(r, SuccessResponse(tool_id, local[r].crew_name, parsed_result),
                    "none")
    /\ UNCHANGED <<_flow_cache, env, loop, req, local, call, outcome, constructed,
                   stores, attempts, envReads>>
    /\ UNCHANGED synVars
    /\ UNCHANGED normVars

\* the process environment changes. The variable is read by os.getenv at a
\* first access only (in Start, which runs when the loop is free, and only
\* while nothing is cached), so a change is taken at such a moment: changes
\* at other moments are read by nobody before the next such moment
SetEnv ==
    /\ CacheMiss(_flow_cache)
    /\ LoopFree
    /\ \E v \in EnvValues \ {env} : env' = v
    /\ UNCHANGED <<_flow_cache, loop, pc, req, local, call, outcome, resp,
                   constructed, stores, attempts, envReads, origin>>
    /\ UNCHANGED synVars
    /\ UNCHANGED normVars

\* GET /health and GET /api/tools/google-suite/list: async handlers with no
\* await, which read constants (and the clock) and write nothing; each runs
\* from start to end on the event loop when the loop is free
health_check ==
    /\ LoopFree
    /\ UNCHANGED vars

list_available_tools ==
    /\ LoopFree
    /\ UNCHANGED vars

Next ==
    \/ health_check
    \/ list_available_tools
    \/ \E r \in Req : Arrive(r)
    \/ \E r \in Req : Start(r)
    \/ \E r \in Req : Construct(r)
    \/ \E r \in Req : Kickoff(r)
    \/ \E r \in Req : Resume(r)
    \/ SetEnv

Spec == Init /\ [][Next]_vars

(***************************************************************************)
(* The synthesizer on its own: every tool identifier of the registry (and  *)
(* one outside it) against a set of params mappings                        *)
(***************************************************************************)
\* how far past BodyLimit the longest body of the model goes
ExtraLen == 50

\* a text of n characters (n up to 210) in which no two windows a non-multiple
\* of 7 apart read the same
Pattern ==
    "123456012345601234560123456012345601234560123456012345601234560123456"
    \o "012345601234560123456012345601234560123456012345601234560123456012345"
    \o "601234560123456012345601234560123456012345601234560123456012345601234560"
Text(n) == SubSeq(Pattern, 1, n)

BodyLens == {0, 6, BodyLimit - 1, BodyLimit, BodyLimit + 1, BodyLimit + ExtraLen}

\* body-like values: texts around the limit, null and a number in place of text
BodyValues == {PyStr(Text(n)) : n \in BodyLens} \cup {PyNone, PyInt(5)}

Mail(b) ==
    PyDict(<< <<"to", PyStr("bob@example.com")>>, <<"subject", PyStr("Hi")>>,
              <<"body", b>>, <<"cc", PyStr("eve@example.com")>>,
              <<"original_from_email", PyStr("bob@example.com")>>,
              <<"original_subject", PyStr("Hi")>>, <<"reply_body", b>> >>)

SynParamInputs ==
    { PyDict(<<>>) }
    \cup { Mail(b) : b \in BodyValues }
    \cup { PyDict(<< <<"body", b>>, <<"reply_body", b>> >>) : b \in BodyValues }
    \cup { PyDict(<< <<"summary", PyStr("Standup")>>,
                     <<"start", PyDict(<< <<"dateTime", PyStr("2024-01-01T09:00:00")>> >>)>>,
                     <<"end", PyDict(<< <<"dateTime", PyStr("2024-01-01T09:30:00")>> >>)>>,
                     <<"attendees", PyList(<<PyStr("a@x.io"), PyStr("b@x.io")>>)>> >>),
           PyDict(<< <<"summary", PyInt(3)>>, <<"start", PyStr("tomorrow")>>,
                     <<"end", PyNone>>,
                     <<"attendees", PyList(<<PyDict(<< <<"email", PyStr("a@x.io")>> >>)>>)>> >>),
           PyDict(<< <<"fileName", PyNone>>, <<"name", PyStr("report.pdf")>>,
                     <<"folderId", PyInt(0)>>, <<"query", PyNone>>,
                     <<"hours", PyStr("12")>>, <<"unread_only", PyBool(FALSE)>>,
                     <<"title", PyNone>>, <<"eventId", PyInt(9)>> >>) }

SynToolInputs == ToolIdSet \cup {"not_a_real_tool"}

SynInit ==
    /\ ServerInit
    /\ env = PyNone
    /\ synTool \in SynToolInputs
    /\ synParams \in SynParamInputs
    /\ synOut = Pending
    /\ NormIdle

\* one call of convert_params_to_user_query(tool_id, params)
SynApply ==
    /\ synOut = Pending
    /\ synOut' = convert_params_to_user_query(synTool, synParams)
    /\ UNCHANGED <<synTool, synParams>>
    /\ UNCHANGED serverVars
    /\ UNCHANGED normVars

SynNext == SynApply

SynSpec == SynInit /\ [][SynNext]_vars

(***************************************************************************)
(* The normalizer on its own: parse_crewai_result applied to a value of    *)
(* each of its five shapes, and again to what it returned                  *)
(***************************************************************************)
\* how deep the values handed to the normalizer nest
NormDepth == 1

NormBase ==
    { PyNone, PyStr(""), PyStr("done"), PyInt(0), PyInt(42), PyBool(FALSE),
      PyList(<<>>), PyDict(<<>>) }

\* what flow.kickoff may return: plain values, and around a value v a state
\* object whose response is v, an object whose __dict__ holds v, mappings
\* whose 'message' or 'response' entry is v, and an envelope whose data is v
Wrap(v) ==
    { PyState(v, "response=" \o Repr(v)),
      PyObject(PyDict(<< <<"raw", v>> >>), "CrewOutput(raw=" \o Repr(v) \o ")"),
      PyDict(<< <<"message", v>> >>),
      PyDict(<< <<"response", v>> >>),
      PyDict(<< <<"data", v>>, <<"status", PyStr("error")>>,
                <<"message", PyStr("failed")>> >>) }

RECURSIVE NormValues(_)
NormValues(depth) ==
    IF depth = 0 THEN NormBase
    ELSE LET inner == NormValues(depth - 1)
         IN inner \cup UNION { Wrap(v) : v \in inner }

NormInit ==
    /\ ServerInit
    /\ env = PyNone
    /\ SynIdle
    /\ normIn \in NormValues(NormDepth)
    /\ normOnce = Pending
    /\ normTwice = Pending

\* parse_crewai_result(result)
NormApply ==
    /\ normOnce = Pending
    /\ normOnce' = parse_crewai_result(normIn)
    /\ UNCHANGED <<normIn, normTwice>>
    /\ UNCHANGED serverVars
    /\ UNCHANGED synVars

\* parse_crewai_result of what parse_crewai_result returned
NormAgain ==
    /\ normOnce # Pending
    /\ normTwice = Pending
    /\ normTwice' = parse_crewai_result(normOnce)
    /\ UNCHANGED <<normIn, normOnce>>
    /\ UNCHANGED serverVars
    /\ UNCHANGED synVars

NormNext == NormApply \/ NormAgain

NormSpec == NormInit /\ [][NormNext]_vars

(***************************************************************************)
(* Claims                                                                  *)
(***************************************************************************)
Ready == CACHE_KEY \in DOMAIN _flow_cache
Done(r) == pc[r] = "done"
HasCall(r) == call[r] # NoCall
\* the request is for a known tool and its query is there (given or synthesized)
ReachesCache(r) == KnownTool(req[r].toolId) /\ UserQuery(req[r]).ok
ConfigShaped(response) ==
    /\ ~response.success
    /\ response.error.t = "str"
    /\ StartsWith(response.error.v, "Configuration error")
    /\ response.metadata = PyNone
GenericShaped(response) ==
    /\ ~response.success
    /\ response.error.t = "str"
    /\ StartsWith(response.error.v, "Error executing tool")
    /\ response.metadata.t = "dict"
    /\ Get(response.metadata, "traceback", PyNone).t = "str"

\* C1: whatever requests are handled and however they interleave, a handle is
\* stored in the slot 'google_suite' of the cache at most once
C1_StoredAtMostOnce == stores <= 1

\* two requests got the one handle that was stored
C1_Witness ==
    /\ stores = 1
    /\ \E r1, r2 \in Req :
          /\ r1 # r2
          /\ HasCall(r1) /\ HasCall(r2)
          /\ call[r1].flow = _flow_cache[CACHE_KEY]
          /\ call[r2].flow = _flow_cache[CACHE_KEY]

C3_ReadyForever ==
    [][ Ready =>
          /\ _flow_cache' = _flow_cache
          /\ envReads' = envReads
          /\ attempts' = attempts
          /\ \A r \in Req :
                (~HasCall(r) /\ call'[r] # NoCall)
                    => call'[r].flow = _flow_cache[CACHE_KEY] ]_vars

\* with the cache Ready one request failed in the invocation, and another
\* was served the cached handle afterwards: the credential was read once
C3_Witness ==
    /\ Ready
    /\ envReads = 1
    /\ \E r1, r2 \in Req :
          /\ r1 # r2
          /\ Done(r1) /\ origin[r1] = "invocation"
          /\ HasCall(r2) /\ call[r2].flow = _flow_cache[CACHE_KEY]
          /\ call[r1].flow = call[r2].flow

\* C4: a request for a known tool that finds the cache Uninitialized and the
\* credential absent or empty ends with success=false and a 'Configuration
\* error'; nothing is constructed, invoked or cached
C4_MissingCredential ==
    [][ \A r \in Req :
          (/\ pc[r] = "accepted" /\ pc'[r] # "accepted"
           /\ ReachesCache(r)
           /\ ~Ready
           /\ (env = PyNone \/ env = PyStr("")))
          => /\ pc'[r] = "done"
             /\ ConfigShaped(resp'[r])
             /\ call'[r] = NoCall
             /\ outcome'[r] = Pending
             /\ attempts' = attempts
             /\ constructed' = constructed
             /\ _flow_cache' = _flow_cache ]_vars

\* one request failed for the missing credential; the credential was set and
\* a later request initialized the flow and succeeded
C4_Witness ==
    \E r1, r2 \in Req :
        /\ r1 < r2
        /\ Done(r1) /\ origin[r1] = "credential" /\ ConfigShaped(resp[r1])
        /\ Done(r2) /\ resp[r2].success
        /\ Ready

\* the registry's identifiers as the message lists them, and the fact that
\* this listing names every one of them
RegistryListing ==
    "[" \o JoinStr([i \in 1..Len(TOOL_IDS) |-> "'" \o TOOL_IDS[i] \o "'"], ", ") \o "]"
ListingNamesEveryTool ==
    \A i \in 1..Len(TOOL_IDS) : Contains(RegistryListing, "'" \o TOOL_IDS[i] \o "'")
EndsWith(s, p) == Len(s) >= Len(p) /\ SubSeq(s, Len(s) - Len(p) + 1, Len(s)) = p

\* C5: a request whose toolId is no key of the registry gets success=false, no
\* output, and an error that holds 'Unknown tool ID' (at its start) and every
\* tool identifier of the registry (the listing, at its end), whatever its
\* params, its userQuery and the cache state
C5_UnknownTool ==
    [][ \A r \in Req :
          (pc[r] = "accepted" /\ pc'[r] # "accepted" /\ req[r].toolId \notin ToolIdSet)
          => /\ pc'[r] = "done"
             /\ ~resp'[r].success
             /\ resp'[r].output = PyNone
             /\ resp'[r].error.t = "str"
             /\ StartsWith(resp'[r].error.v, "Unknown tool ID")
             /\ EndsWith(resp'[r].error.v, RegistryListing)
             /\ ListingNamesEveryTool ]_vars

\* an unknown tool was refused with the cache Ready and a userQuery given
C5_Witness ==
    \E r \in Req :
        /\ Done(r)
        /\ req[r].toolId \notin ToolIdSet
        /\ Truthy(req[r].userQuery)
        /\ Ready
        /\ ~resp[r].success

\* C6: success=true comes with an output (not None) and no error; success=false
\* with a non-empty error string and no output
C6_OutputXorError ==
    \A r \in Req :
        resp[r] # Pending =>
            IF resp[r].success
            THEN resp[r].output # PyNone /\ resp[r].error = PyNone
            ELSE /\ resp[r].output = PyNone
                 /\ resp[r].error.t = "str"
                 /\ resp[r].error.v # ""

\* one request succeeded and another failed
C6_Witness ==
    \E r1, r2 \in Req :
        /\ resp[r1] # Pending /\ resp[r1].success
        /\ resp[r2] # Pending /\ ~resp[r2].success /\ origin[r2] = "invocation"

\* C7, as claimed: a failed request for a known tool is reported as a
\* configuration error (no traceback) exactly when its exception was raised in
\* the flow's construction (credential or constructor); every other exception
\* is reported as 'Error executing tool' with metadata.traceback
C7_ConfigErrorIffConstruction ==
    \A r \in Req :
        (resp[r] # Pending /\ origin[r] # "none") =>
            IF origin[r] \in {"credential", "construction"}
            THEN ConfigShaped(resp[r])
            ELSE GenericShaped(resp[r])

\* C8: every invocation gets {user_query, crew_name, flow_name} with crew_name
\* and flow_name both the registry's flow name of the toolId, and user_query
\* the caller's userQuery when it is there and not empty, else the sentence
\* synthesized from (toolId, params)
C8_KickoffBundle ==
    \A r \in Req :
        HasCall(r) =>
            /\ DOMAIN call[r].inputs = {"user_query", "crew_name", "flow_name"}
            /\ req[r].toolId \in ToolIdSet
            /\ call[r].inputs.crew_name = TOOL_TO_CREW_MAPPING[req[r].toolId]
            /\ call[r].inputs.flow_name = call[r].inputs.crew_name
            /\ call[r].inputs.user_query =
                  IF req[r].userQuery.t = "str" /\ req[r].userQuery.v # ""
                  THEN req[r].userQuery.v
                  ELSE convert_params_to_user_query(req[r].toolId, req[r].params).v

\* the flow was invoked once with the caller's query and once with a query
\* synthesized because the caller's was empty
C8_Witness ==
    \E r1, r2 \in Req :
        /\ pc[r1] = "returned" /\ req[r1].userQuery = PyStr("Reply to Bob")
        /\ pc[r2] = "returned" /\ req[r2].userQuery = PyStr("")

\* C9, as claimed: for every tool identifier of the registry and every params
\* mapping the synthesizer returns a non-empty string and does not raise
C9_NeverRaises ==
    (synOut # Pending /\ synTool \in ToolIdSet) => (synOut.ok /\ synOut.v # "")

\* C10, as claimed: a body (gmail_send) or reply_body (gmail_reply) text longer
\* than 100 characters is embedded as its first 100 characters and '...'; a
\* text of 100 characters or fewer is embedded unchanged, with no '...'
BodyKey == IF synTool = "gmail_send" THEN "body" ELSE "reply_body"
C10_BodyTruncation ==
    LET text == Get(synParams, BodyKey, PyStr("")) IN
    (/\ synOut # Pending
     /\ synTool \in {"gmail_send", "gmail_reply"}
     /\ text.t = "str")
    => /\ synOut.ok
       /\ IF Len(text.v) > BodyLimit
          THEN /\ Contains(synOut.v, ": " \o SubSeq(text.v, 1, BodyLimit) \o "...")
               /\ ~Contains(synOut.v, SubSeq(text.v, 1, BodyLimit + 1))
          ELSE /\ Contains(synOut.v, text.v)
               /\ ~Contains(synOut.v, "...")

\* C11: parse_crewai_result is idempotent: applied to what it returned it
\* returns the same value, whatever the shape of the first input; and a
\* mapping is returned unchanged
C11_Idempotent ==
    /\ normTwice # Pending => normTwice = normOnce
    /\ (normOnce # Pending /\ normIn.t = "dict") => normOnce = normIn

\* a mapping that is no envelope went through the normalizer twice
C11_Witness ==
    /\ normTwice # Pending
    /\ normIn.t = "dict"
    /\ ~HasKey(normIn, "status")

\* the request went through first access and stored the handle it was given
\* (api_key is set on the first-access path of get_google_suite_flow only)
StoredHandle(r) == IF HasCall(r) THEN local[r].api_key # PyNone ELSE FALSE
Failed(r) == IF resp[r] = Pending THEN FALSE ELSE ~resp[r].success
\* the requests that called the GoogleSuiteFlow constructor
CalledConstructor ==
    {r \in Req : IF local[r] = Pending THEN FALSE
                  ELSE local[r].api_key # PyNone /\ pc[r] # "constructing"}

\* C12, as claimed: a failed request (unknown tool, configuration error,
\* exception during the invocation) leaves the flow cache as it was before
\* the request: no failed request has stored a handle
C12_FailedLeavesCache ==
    \A r \in Req :
        (/\ Failed(r)
         /\ \/ ~KnownTool(req[r].toolId)
            \/ origin[r] \in {"credential", "construction", "invocation"})
        => ~StoredHandle(r)

\* C12, amended: the step that ends a request in failure changes neither the
\* cache nor the history of stores; a request that failed before the
\* invocation (unknown tool, query synthesis, credential, constructor) has
\* stored nothing; a response once given is final and its request takes no
\* further step; and the constructor was called once per request that
\* reached it (nothing is retried)
C12_FailureIsTerminal ==
    [][ /\ \A r \in Req :
              /\ (resp[r] = Pending /\ resp'[r] # Pending /\ ~resp'[r].success)
                    => /\ _flow_cache' = _flow_cache
                       /\ stores' = stores
                       /\ constructed' = constructed
              /\ resp[r] # Pending
                    => resp'[r] = resp[r] /\ pc[r] = "done" /\ pc'[r] = "done"
        /\ (\A r \in Req :
              (Failed(r) /\ origin[r] \notin {"invocation", "logging"})
                  => ~StoredHandle(r))'
        /\ (attempts = Cardinality(CalledConstructor))' ]_vars

\* a request stored the handle and then failed in the invocation; a later
\* request was served that handle and succeeded
C12_Witness ==
    \E r1, r2 \in Req :
        /\ r1 # r2
        /\ Failed(r1) /\ origin[r1] = "invocation" /\ StoredHandle(r1)
        /\ Done(r2) /\ resp[r2].success
        /\ call[r2].flow = call[r1].flow
        /\ ~StoredHandle(r2)

\* C13, as claimed: while an execute request is obtaining the flow or waiting
\* for the invocation, the event loop is not stalled: a health request, a
\* tool-list request and every other accepted execute request can be handled
C13_LoopNotStalled ==
    \A r \in Req :
        pc[r] \in {"constructing", "running"} =>
            /\ ENABLED health_check
            /\ ENABLED list_available_tools
            /\ \A r2 \in Req \ {r} : pc[r2] = "accepted" => ENABLED Start(r2)

\* C14, as claimed: a request whose flow invocation took place is reported
\* with success=true exactly when flow.kickoff returned without raising,
\* whatever the shape of the value returned, and then its output is that
\* value normalized
C14_SuccessIffReturned ==
    \A r \in Req :
        (Done(r) /\ outcome[r] # Pending) =>
            /\ resp[r].success <=> outcome[r].ok
            /\ outcome[r].ok => resp[r].output = parse_crewai_result(outcome[r].v)

================================================================================
